---- MODULE Spec2Model ----
(***************************************************************************)
(* Model of main.py: the batch pipeline that converts .aac recordings to   *)
(* .wav, standardizes and splits them, transcribes each chunk with bounded *)
(* retry, and keeps a JSON ledger keyed by base file name.                 *)
(*                                                                         *)
(* Three specifications share the module:                                  *)
(*   Spec       process_folder, run repeatedly over one file system        *)
(*   RetrySpec  transcribe_with_retry, one loop iteration per step         *)
(*   SplitSpec  split_audio on bounded durations and chunk lengths         *)
(***************************************************************************)
EXTENDS Naturals, Integers, Sequences, FiniteSets, TLC

VARIABLES
    \* ---- the file system and the persisted ledger
    inputExists,    \* os.path.exists(input_folder)
    aacFiles,       \* base names of the .aac files of the input folder
    outExists,      \* the output folder exists
    folders,        \* sub-folders of the output folder
    files,          \* <<folder, base name>> -> duration (ms) of each .wav file
    ledgerFile,     \* the JSON file: [state, data]
    \* ---- process_folder's position and locals
    pc,
    transcriptions, \* the in-memory ledger
    todoAac,        \* aac files the converter loop has not reached yet
    todoFolders,    \* os.listdir(output_folder) entries not reached yet
    todoFiles,      \* wav_files entries of the current folder not reached yet
    curFolder,
    transcribes,    \* calls of transcribe_audio so far
    faults,         \* conversion, standardize, split and save failures so far
    \* ---- history of the current run (observation only)
    loaded,         \* the ledger as loaded at the start of the run
    startFile,      \* the JSON file at the start of the run
    filesAtStart,   \* DOMAIN files at the start of the run
    foldersAtStart,
    handledAac,     \* aac files the converter loop has handled
    attempted,      \* aac files whose decode/export was attempted
    found,          \* wav files listed by the run
    transcribedNow, \* wav files transcribe_audio was called for
    writes,         \* times the JSON file was opened for writing
    okSoFar,        \* no conversion, standardize, split or save failure yet
    prevOK,         \* the run before this one completed without such failure
    prevEnd,        \* the in-memory ledger at the end of the run before
    prevTranscribed,\* what the run before transcribed, when it was killed
    ledger0,        \* the JSON file before the first run
    \* ---- transcribe_with_retry (RetrySpec)
    rpc, retries, rpath, rstate, trace,
    \* ---- split_audio (SplitSpec)
    spc, sPath, sDur, sLen, sFailed, sChunks, sPaths

fsVars    == <<inputExists, aacFiles, outExists, folders, files, ledgerFile>>
runVars   == <<pc, transcriptions, todoAac, todoFolders, todoFiles, curFolder,
               transcribes, faults>>
histVars  == <<loaded, startFile, filesAtStart, foldersAtStart, handledAac,
               attempted, found, transcribedNow, writes, okSoFar, prevOK,
               prevEnd, prevTranscribed, ledger0>>
retryVars == <<rpc, retries, rpath, rstate, trace>>
splitVars == <<spc, sPath, sDur, sLen, sFailed, sChunks, sPaths>>
vars      == <<fsVars, runVars, histVars, retryVars, splitVars>>

----------------------------------------------------------------------------
(* Bounds of the model *)

MaxTranscribes == 3
MaxFaults == 1
MaxRetries == 4
MaxDur == 12
MaxChunkLen == 8

(* Program constants *)

ChunkLengthMs == 60000
DefaultRetries == 3

SourceNames == {"a", "b"}
\* durations a decoded recording may have: recording "a" is empty (no chunk)
\* or a full chunk and a short one, recording "b" is empty
Durations(f) == IF f = "a" THEN {0, ChunkLengthMs + 1} ELSE {0}

----------------------------------------------------------------------------
(* Values *)

None == [tag |-> "null", text |-> ""]
Str(s) == [tag |-> "str", text |-> s]
Truthy(v) == v.tag = "str" /\ v.text # ""

EmptyMap == [k \in {} |-> None]

Missing == [state |-> "missing", data |-> EmptyMap]
Corrupt == [state |-> "corrupt", data |-> EmptyMap]
Valid(m) == [state |-> "ok", data |-> m]

RECURSIVE Join(_)
Join(s) == IF s = <<>> THEN ""
           ELSE IF Len(s) = 1 THEN s[1]
           ELSE s[1] \o " " \o Join(Tail(s))

----------------------------------------------------------------------------
(* Ledger: load_existing_transcriptions / save_transcriptions_to_json *)

load_existing_transcriptions(f) ==
    IF f.state = "ok" THEN f.data ELSE EmptyMap

\* ok: the dump succeeded; otherwise the open failed (file untouched) or the
\* write broke off (file left truncated).
save_transcriptions_to_json(t, f, outcome) ==
    CASE outcome = "ok"          -> Valid(t)
      [] outcome = "open_failed" -> f
      [] OTHER                   -> Corrupt

SaveOutcomes == {"ok", "open_failed", "write_failed"}

----------------------------------------------------------------------------
(* Path arithmetic *)

\* file_path.replace(".wav", "_standardized.wav"), on the base name
Standardized(name) == name \o "_standardized"

\* f"{file_path.replace('.wav', '')}_chunk{i//chunk_length_ms}.wav"
ChunkName(name, idx) == name \o "_chunk" \o ToString(idx)

----------------------------------------------------------------------------
(* split_audio *)

\* range(start, stop, step) for step >= 1
RECURSIVE Range(_, _, _)
Range(start, stop, step) ==
    IF start >= stop THEN <<>>
    ELSE <<start>> \o Range(start + step, stop, step)

Min(x, y) == IF x <= y THEN x ELSE y

\* variant: the last window is not clamped to the end of the audio
SliceEnd_Unclamped(i, len, dur) == i + len

\* audio[i:i+chunk_length_ms]: the slice is clamped to the end of the audio
SliceEnd(i, len, dur) == Min(i + len, dur)

\* the chunks split_audio exports, in order, when nothing fails
SplitAudio(name, dur, len) ==
    LET starts == Range(0, dur, len)
    IN  [k \in 1..Len(starts) |->
            [name |-> ChunkName(name, starts[k] \div len),
             from |-> starts[k],
             to   |-> SliceEnd(starts[k], len, dur)]]

\* the list split_audio returns: chunk paths, or [file_path] on failure
split_audio(name, dur, len, ok) ==
    IF ok THEN [k \in 1..Len(SplitAudio(name, dur, len)) |->
                   SplitAudio(name, dur, len)[k].name]
    ELSE <<name>>

----------------------------------------------------------------------------
(* transcribe_with_retry *)

Ok(text)     == [kind |-> "ok", text |-> text]
RequestError == [kind |-> "request_error", text |-> ""]
UnknownValue == [kind |-> "unknown_value", text |-> ""]
\* any other exception (sr.AudioFile cannot read the file): not caught
OtherError   == [kind |-> "other_error", text |-> ""]

RetryStart == [attempts |-> 0, calls |-> 0, done |-> FALSE,
               raised |-> FALSE, result |-> None]

\* variant: the loop test admits one pass too many
LoopGuard_Inclusive(attempts, n) == attempts <= n

\* while attempts < retries
LoopGuard(attempts, n) == attempts < n

\* variant: not-understood is counted as a failed attempt and retried
OnUnknownValue_Retried(st) == [st EXCEPT !.attempts = @ + 1]

\* except sr.UnknownValueError: return None
OnUnknownValue(st) == [st EXCEPT !.done = TRUE, !.result = None]

\* except sr.RequestError: attempts += 1
OnRequestError(st) == [st EXCEPT !.attempts = @ + 1]

\* variant: the recognized text is kept but the function does not return it
RetryBody_NoReturn(st, o) ==
    LET called == [st EXCEPT !.calls = @ + 1]
    IN  CASE o.kind = "ok"            -> [called EXCEPT !.attempts = @ + 1,
                                                        !.result = Str(o.text)]
          [] o.kind = "request_error" -> OnRequestError(called)
          [] o.kind = "unknown_value" -> OnUnknownValue(called)
          [] OTHER                    -> [called EXCEPT !.done = TRUE,
                                                        !.raised = TRUE]

\* one pass through the loop body with the service answering `o`
RetryBody(st, o) ==
    LET called == [st EXCEPT !.calls = @ + 1]
    IN  CASE o.kind = "ok"            -> [called EXCEPT !.done = TRUE,
                                                        !.result = Str(o.text)]
          [] o.kind = "request_error" -> OnRequestError(called)
          [] o.kind = "unknown_value" -> OnUnknownValue(called)
          [] OTHER                    -> [called EXCEPT !.done = TRUE,
                                                        !.raised = TRUE]

\* the loop test failed: return None
RetryExhausted(st) == [st EXCEPT !.done = TRUE, !.result = None]

\* the whole call against a service that answers script[1], script[2], ...
RECURSIVE transcribe_with_retry(_, _, _)
transcribe_with_retry(st, script, n) ==
    IF st.done THEN st
    ELSE IF ~LoopGuard(st.attempts, n) THEN RetryExhausted(st)
    ELSE transcribe_with_retry(RetryBody(st, script[st.calls + 1]), script, n)

----------------------------------------------------------------------------
(* transcribe_audio *)

\* service behaviours tried for a chunk in the pipeline: what the service
\* answers on the 1st, 2nd, 3rd call
ReadableScripts ==
    { <<Ok("t"), Ok("t"), Ok("t")>>,
      <<RequestError, RequestError, Ok("t")>>,
      <<RequestError, RequestError, RequestError>>,
      <<RequestError, UnknownValue, Ok("t")>> }

\* a file that split_audio could not load may be unreadable for sr.AudioFile too
FallbackScripts ==
    ReadableScripts \cup { <<RequestError, OtherError, Ok("t")>> }

\* one service behaviour for each chunk transcribe_audio will send
ServiceScripts(dur, splitOk) ==
    [1..Len(split_audio("", dur, ChunkLengthMs, splitOk)) ->
        IF splitOk THEN ReadableScripts ELSE FallbackScripts]

\* if transcription: transcriptions.append(transcription)
RECURSIVE KeepTruthy(_)
KeepTruthy(rs) ==
    IF rs = <<>> THEN <<>>
    ELSE IF Truthy(rs[1].result) THEN <<rs[1].result.text>> \o KeepTruthy(Tail(rs))
    ELSE KeepTruthy(Tail(rs))

\* " ".join(transcriptions) if transcriptions else None
Aggregate(rs) ==
    IF KeepTruthy(rs) # <<>> THEN Str(Join(KeepTruthy(rs))) ELSE None

\* standardize_audio: the path it returns
standardize_audio(name, ok) == IF ok THEN Standardized(name) ELSE name

\* transcribe_audio(file_path) for the file `name` of `folder`, of duration
\* `dur`: the files it writes, whether an exception escapes, and its result
transcribe_audio(folder, name, dur, stdOk, splitOk, scripts) ==
    LET stdName == standardize_audio(name, stdOk)
        stdFile == IF stdOk THEN (<<folder, stdName>> :> dur) ELSE << >>
        recs    == IF splitOk THEN SplitAudio(stdName, dur, ChunkLengthMs) ELSE << >>
        paths   == split_audio(stdName, dur, ChunkLengthMs, splitOk)
        written == [k \in {<<folder, recs[i].name>> : i \in 1..Len(recs)} |->
                       LET i == CHOOSE j \in 1..Len(recs) : recs[j].name = k[2]
                       IN  recs[i].to - recs[i].from]
        rs      == [k \in 1..Len(paths) |->
                       transcribe_with_retry(RetryStart, scripts[k], DefaultRetries)]
    IN  [written |-> written @@ stdFile,
         raised  |-> \E k \in 1..Len(rs) : rs[k].raised,
         result  |-> Aggregate(rs)]

----------------------------------------------------------------------------
(* convert_aac_to_wav and process_folder *)

\* variant: a key whose stored value is null or empty does not count
AlreadyProcessed_Truthy(base, t) == base \in DOMAIN t /\ Truthy(t[base])

\* if file_base_name in transcriptions  (converter)
AlreadyProcessed(base, t) == base \in DOMAIN t

\* if os.path.exists(output_path)
AlreadyConverted(base, fs) == <<base, base>> \in DOMAIN fs

\* variant: a key whose stored value is null or empty is transcribed again
AlreadyTranscribed_Truthy(base, t) == base \in DOMAIN t /\ Truthy(t[base])

\* if file_base_name in transcriptions  (transcription loop)
AlreadyTranscribed(base, t) == base \in DOMAIN t

\* variant: only the converted recording itself is listed
WavFiles_SourceOnly(folder, fs) == {k \in DOMAIN fs : k[1] = folder /\ k[2] = folder}

\* wav_files = [file for file in os.listdir(folder_path) if file.endswith(".wav")]
WavFiles(folder, fs) == {k \in DOMAIN fs : k[1] = folder}

\* os.listdir order: the entry the loop reaches next
NextOf(S) == CHOOSE x \in S : TRUE

\* the aac files the converter loops over (it returns early without any)
AacToConvert(exists, aac) == IF exists THEN aac ELSE {}

Stopped == {"idle", "done", "crashed", "killed"}
Running == {"convert", "folders", "files", "save"}

InitLedgers ==
    {Missing, Corrupt}
        \cup {Valid("a" :> v) : v \in {None, Str(""), Str("t")}}

IdleRetry ==
    /\ rpc = "idle" /\ retries = 0 /\ rpath = "" /\ rstate = RetryStart
    /\ trace = << >>

IdleSplit ==
    /\ spc = "idle" /\ sPath = "" /\ sDur = 0 /\ sLen = 1 /\ sFailed = FALSE
    /\ sChunks = << >> /\ sPaths = << >>

IdleRun ==
    /\ pc = "idle" /\ transcriptions = EmptyMap /\ todoAac = {}
    /\ todoFolders = {} /\ todoFiles = {} /\ curFolder = "" /\ transcribes = 0
    /\ faults = 0
    /\ loaded = EmptyMap /\ filesAtStart = {} /\ foldersAtStart = {}
    /\ handledAac = {} /\ attempted = {} /\ found = {} /\ transcribedNow = {}
    /\ writes = 0 /\ okSoFar = TRUE /\ prevOK = FALSE /\ prevEnd = EmptyMap
    /\ prevTranscribed = {}

Init ==
    /\ inputExists \in BOOLEAN
    /\ aacFiles \in {{}, {"a"}, SourceNames}
    /\ ~inputExists => aacFiles = {}
    /\ outExists \in BOOLEAN
    /\ folders = {}
    /\ files = << >>
    /\ ledgerFile \in InitLedgers
    /\ startFile = ledgerFile
    /\ ledger0 = ledgerFile
    /\ IdleRun /\ IdleRetry /\ IdleSplit

\* the pipeline at rest, for the specifications of the single functions
IdleFs ==
    /\ inputExists = FALSE /\ aacFiles = {} /\ outExists = FALSE
    /\ folders = {} /\ files = << >> /\ ledgerFile = Missing
    /\ startFile = Missing /\ ledger0 = Missing

\* process_folder is called: load the ledger, enter the converter
Start ==
    /\ pc \in Stopped
    /\ transcriptions' = load_existing_transcriptions(ledgerFile)
    /\ todoAac' = AacToConvert(inputExists, aacFiles)
    /\ pc' = "convert"
    /\ todoFolders' = {} /\ todoFiles' = {} /\ curFolder' = ""
    /\ loaded' = load_existing_transcriptions(ledgerFile)
    /\ startFile' = ledgerFile
    /\ filesAtStart' = DOMAIN files
    /\ foldersAtStart' = folders
    /\ handledAac' = {} /\ attempted' = {} /\ found' = {}
    /\ transcribedNow' = {} /\ writes' = 0 /\ okSoFar' = TRUE
    /\ prevOK' = (pc = "done" /\ okSoFar)
    /\ prevEnd' = transcriptions
    /\ prevTranscribed' = (IF pc = "killed" THEN transcribedNow ELSE {})
    /\ UNCHANGED <<fsVars, faults, transcribes, ledger0, retryVars, splitVars>>

\* one pass of the converter's loop body
ConvertOne(f, ok, dur) ==
    /\ pc = "convert"
    /\ todoAac # {}
    /\ f = NextOf(todoAac)
    /\ todoAac' = todoAac \ {f}
    /\ handledAac' = handledAac \cup {f}
    /\ IF AlreadyProcessed(f, transcriptions)
       THEN UNCHANGED <<outExists, folders, files, attempted, okSoFar, faults>>
       ELSE /\ outExists' = TRUE
            /\ folders' = folders \cup {f}
            /\ IF AlreadyConverted(f, files)
               THEN UNCHANGED <<files, attempted, okSoFar, faults>>
               ELSE /\ attempted' = attempted \cup {f}
                    /\ files' = IF ok THEN (<<f, f>> :> dur) @@ files ELSE files
                    /\ okSoFar' = (okSoFar /\ ok)
                    /\ faults' = faults + (IF ok THEN 0 ELSE 1)
                    /\ faults' <= MaxFaults
    /\ UNCHANGED <<inputExists, aacFiles, ledgerFile, pc, transcriptions,
                   todoFolders, todoFiles, curFolder, transcribes, loaded, startFile,
                   filesAtStart, foldersAtStart, found, transcribedNow, writes,
                   prevOK, prevEnd, prevTranscribed, ledger0, retryVars,
                   splitVars>>

\* for folder_name in os.listdir(output_folder)
ListOutput ==
    /\ pc = "convert"
    /\ todoAac = {}
    /\ IF outExists
       THEN pc' = "folders" /\ todoFolders' = folders
       ELSE pc' = "crashed" /\ todoFolders' = {}
    /\ UNCHANGED <<fsVars, transcriptions, todoAac, todoFiles, curFolder, transcribes,
                   faults, histVars, retryVars, splitVars>>

EnterFolder(d) ==
    /\ pc = "folders"
    /\ todoFolders # {}
    /\ d = NextOf(todoFolders)
    /\ todoFolders' = todoFolders \ {d}
    /\ curFolder' = d
    /\ todoFiles' = WavFiles(d, files)
    /\ found' = found \cup WavFiles(d, files)
    /\ pc' = "files"
    /\ UNCHANGED <<fsVars, transcriptions, todoAac, transcribes, faults, loaded,
                   startFile, filesAtStart, foldersAtStart, handledAac,
                   attempted, transcribedNow, writes, okSoFar, prevOK, prevEnd,
                   prevTranscribed, ledger0, retryVars, splitVars>>

\* one pass of the loop over wav_files
HandleFile(k, stdOk, splitOk, scripts) ==
    /\ pc = "files"
    /\ todoFiles # {}
    /\ k = NextOf(todoFiles)
    /\ todoFiles' = todoFiles \ {k}
    /\ IF AlreadyTranscribed(k[2], transcriptions)
       THEN UNCHANGED <<files, transcriptions, transcribedNow, okSoFar, pc, faults,
                        transcribes>>
       ELSE LET r == transcribe_audio(k[1], k[2], files[k], stdOk, splitOk, scripts)
            IN  /\ transcribes < MaxTranscribes
                /\ transcribes' = transcribes + 1
                /\ transcribedNow' = transcribedNow \cup {k}
                /\ files' = r.written @@ files
                /\ okSoFar' = (okSoFar /\ stdOk /\ splitOk)
                /\ faults' = faults + (IF stdOk THEN 0 ELSE 1)
                                    + (IF splitOk THEN 0 ELSE 1)
                /\ faults' <= MaxFaults
                /\ IF r.raised
                   THEN pc' = "crashed" /\ UNCHANGED transcriptions
                   ELSE /\ pc' = pc
                        /\ transcriptions' = (k[2] :> r.result) @@ transcriptions
    /\ UNCHANGED <<inputExists, aacFiles, outExists, folders, ledgerFile,
                   todoAac, todoFolders, curFolder, loaded, startFile,
                   filesAtStart, foldersAtStart, handledAac, attempted, found,
                   writes, prevOK, prevEnd, prevTranscribed, ledger0,
                   retryVars, splitVars>>

FilesDone ==
    /\ pc = "files"
    /\ todoFiles = {}
    /\ pc' = "folders"
    /\ UNCHANGED <<fsVars, transcriptions, todoAac, todoFolders, todoFiles,
                   curFolder, transcribes, faults, histVars, retryVars, splitVars>>

FoldersDone ==
    /\ pc = "folders"
    /\ todoFolders = {}
    /\ pc' = "save"
    /\ UNCHANGED <<fsVars, transcriptions, todoAac, todoFolders, todoFiles,
                   curFolder, transcribes, faults, histVars, retryVars, splitVars>>

\* save_transcriptions_to_json(transcriptions, output_json); return
Save(outcome) ==
    /\ pc = "save"
    /\ ledgerFile' = save_transcriptions_to_json(transcriptions, ledgerFile, outcome)
    /\ writes' = writes + 1
    /\ okSoFar' = (okSoFar /\ outcome = "ok")
    /\ faults' = faults + (IF outcome = "ok" THEN 0 ELSE 1)
    /\ faults' <= MaxFaults
    /\ pc' = "done"
    /\ UNCHANGED <<inputExists, aacFiles, outExists, folders, files,
                   transcriptions, todoAac, todoFolders, todoFiles, curFolder,
                   transcribes, loaded, startFile, filesAtStart, foldersAtStart,
                   handledAac, attempted, found, transcribedNow, prevOK,
                   prevEnd, prevTranscribed, ledger0, retryVars, splitVars>>

\* the process is terminated from outside
Kill ==
    /\ pc \in Running
    /\ pc' = "killed"
    /\ UNCHANGED <<fsVars, transcriptions, todoAac, todoFolders, todoFiles,
                   curFolder, transcribes, faults, histVars, retryVars, splitVars>>

Next ==
    \/ Start
    \/ \E f \in SourceNames, ok \in BOOLEAN :
         \E dur \in Durations(f) : ConvertOne(f, ok, dur)
    \/ ListOutput
    \/ \E d \in folders : EnterFolder(d)
    \/ \E k \in DOMAIN files, stdOk \in BOOLEAN, splitOk \in BOOLEAN :
         \E scripts \in ServiceScripts(files[k], splitOk) :
            HandleFile(k, stdOk, splitOk, scripts)
    \/ FilesDone
    \/ FoldersDone
    \/ \E outcome \in SaveOutcomes : Save(outcome)
    \/ Kill

Spec == Init /\ [][Next]_vars

----------------------------------------------------------------------------
(* RetrySpec: transcribe_with_retry, one loop iteration per step *)

Outcomes == {Ok("t"), Ok(""), RequestError, UnknownValue, OtherError}
RetryPaths == {"a_standardized_chunk0", "a_standardized_chunk1"}

RetryInit == IdleFs /\ IdleRun /\ IdleRetry /\ IdleSplit

\* transcribe_with_retry(path, n) is called
RetryCall(path, n) ==
    /\ rpc \in {"idle", "returned", "raised"}
    /\ rpc' = "loop"
    /\ rpath' = path
    /\ retries' = n
    /\ rstate' = RetryStart
    /\ trace' = << >>
    /\ UNCHANGED <<fsVars, runVars, histVars, splitVars>>

\* the loop test holds: one pass through the body, the service answering o
RetryIterate(o) ==
    /\ rpc = "loop"
    /\ LoopGuard(rstate.attempts, retries)
    /\ rstate' = RetryBody(rstate, o)
    /\ trace' = Append(trace, o)
    /\ rpc' = IF rstate'.raised THEN "raised"
              ELSE IF rstate'.done THEN "returned" ELSE "loop"
    /\ UNCHANGED <<retries, rpath, fsVars, runVars, histVars, splitVars>>

\* the loop test fails: fall out of the loop and return None
RetryExit ==
    /\ rpc = "loop"
    /\ ~LoopGuard(rstate.attempts, retries)
    /\ rstate' = RetryExhausted(rstate)
    /\ rpc' = "returned"
    /\ UNCHANGED <<retries, rpath, trace, fsVars, runVars, histVars, splitVars>>

RetryStep == (\E o \in Outcomes : RetryIterate(o)) \/ RetryExit

RetryNext ==
    \/ \E path \in RetryPaths, n \in 0..MaxRetries : RetryCall(path, n)
    \/ \E o \in Outcomes : RetryIterate(o)
    \/ RetryExit

\* the program is sequential and every service call comes back: a call that
\* is inside the loop takes its next step
RetrySpec == RetryInit /\ [][RetryNext]_vars /\ WF_vars(RetryStep)

----------------------------------------------------------------------------
(* SplitSpec: split_audio on bounded durations and chunk lengths *)

SplitInit == IdleFs /\ IdleRun /\ IdleRetry /\ IdleSplit

\* split_audio(path, chunk_length_ms=len) on an audio of `dur` ms
SplitCall(path, dur, len, ok) ==
    /\ spc \in {"idle", "returned"}
    /\ spc' = "returned"
    /\ sPath' = path
    /\ sDur' = dur
    /\ sLen' = len
    /\ sFailed' = ~ok
    /\ sChunks' = IF ok THEN SplitAudio(path, dur, len) ELSE << >>
    /\ sPaths' = split_audio(path, dur, len, ok)
    /\ UNCHANGED <<fsVars, runVars, histVars, retryVars>>

SplitNext ==
    \E dur \in 0..MaxDur, len \in 1..MaxChunkLen, ok \in BOOLEAN :
        SplitCall("a_standardized", dur, len, ok)

SplitSpec == SplitInit /\ [][SplitNext]_vars

----------------------------------------------------------------------------
(* Properties of process_folder (Spec) *)

Keys(f) == DOMAIN load_existing_transcriptions(f)

\* C1: a run that follows a completed run (neither run meeting a conversion,
\* standardize, split or save failure) ends with the ledger the first run
\* ended with, and converts and transcribes nothing.
C1_SecondRunIdempotent ==
    (pc = "done" /\ prevOK /\ okSoFar) =>
        /\ transcriptions = prevEnd
        /\ attempted = {}
        /\ transcribedNow = {}

\* C2: every key of the ledger loaded at the start of a run keeps its value
\* for the whole run and in the file the run saves, and transcribe_audio is
\* never called for a waveform file with that base name.
C2_LoadedKeysUntouched ==
    \A k \in DOMAIN loaded :
        /\ k \in DOMAIN transcriptions
        /\ transcriptions[k] = loaded[k]
        /\ \A w \in transcribedNow : w[2] # k
        /\ (pc = "done" /\ ledgerFile.state = "ok") =>
               (k \in DOMAIN ledgerFile.data /\ ledgerFile.data[k] = loaded[k])

\* a later run skipped a file whose key holds null or the empty string,
\* while transcribing another file
C2_Witness ==
    /\ pc = "done"
    /\ transcribedNow # {}
    /\ \E k \in DOMAIN loaded :
          /\ ~Truthy(loaded[k])
          /\ \E w \in found : w[2] = k

\* C3: starting from no ledger and an empty output directory, every key of
\* the ledger, in memory and on disk, is the base name of a source .aac file
\* (stated for the runs that met no conversion, standardize, split or save
\* failure).
C3_KeysAreSourceNames ==
    (ledger0 = Missing /\ faults = 0) =>
        \A k \in DOMAIN transcriptions \cup Keys(ledgerFile) : k \in aacFiles

\* C4: no run ends with an exception escaping process_folder.
C4_NoExceptionEscapes == pc # "crashed"

\* C8: the converter attempts to decode an .aac file exactly when its base
\* name is not a ledger key and its target .wav does not exist yet; for a
\* keyed base name no output sub-folder is created; and the loop reaches
\* every .aac file of the input directory.
C8_ConverterSkipRule ==
    /\ \A f \in handledAac :
          /\ f \in attempted <=> (f \notin DOMAIN loaded /\ <<f, f>> \notin filesAtStart)
          /\ f \in DOMAIN loaded => (f \in folders => f \in foldersAtStart)
    /\ attempted \subseteq handledAac
    /\ pc \in {"folders", "files", "save", "done"} => handledAac = aacFiles

\* a.aac and b.aac with "a" in the ledger: only b.aac is converted, and no
\* folder is made for a
C8_Witness ==
    /\ pc = "done"
    /\ aacFiles = {"a", "b"}
    /\ "a" \in DOMAIN loaded
    /\ handledAac = {"a", "b"}
    /\ attempted = {"b"}
    /\ "a" \notin folders

----------------------------------------------------------------------------
(* Properties of transcribe_with_retry (RetrySpec) *)

\* the service failed transiently k times, then answered
TransientThenOk(tr, k) ==
    /\ Len(tr) = k + 1
    /\ \A i \in 1..k : tr[i] = RequestError
    /\ tr[k + 1].kind = "ok"

\* C5: when the first k < retries calls fail transiently and call k+1
\* answers, the function returns exactly that text after exactly k+1 calls.
C5_SuccessAfterTransient ==
    \A k \in 0..MaxRetries :
        (k < retries /\ TransientThenOk(trace, k)) =>
            /\ rpc = "returned"
            /\ rstate.result = Str(trace[k + 1].text)
            /\ rstate.calls = k + 1

\* retries=3, two transient failures, then the text on the third call
C5_Witness ==
    /\ rpc = "returned"
    /\ retries = DefaultRetries
    /\ trace = <<RequestError, RequestError, Ok("t")>>
    /\ rstate.result = Str("t")
    /\ rstate.calls = 3

\* C6: a not-understood answer is always the last call: the function has
\* returned None and the number of calls is the position of that answer.
C6_NotUnderstoodIsTerminal ==
    \A i \in 1..Len(trace) :
        trace[i] = UnknownValue =>
            /\ i = Len(trace)
            /\ rpc = "returned"
            /\ rstate.result = None
            /\ rstate.calls = i

\* not understood on the second call, after one transient failure
C6_Witness ==
    /\ rpc = "returned"
    /\ trace = <<RequestError, UnknownValue>>
    /\ rstate.result = None
    /\ rstate.calls = 2

AllTransient(tr) == \A i \in 1..Len(tr) : tr[i] = RequestError

\* C7: the service is called at most `retries` times, one call per answer;
\* a call whose every service call failed transiently returns None after
\* exactly `retries` calls; an exception escapes only on an answer that is
\* none of the three service outcomes; and every call ends.
C7_BoundedAndTerminates ==
    /\ [](/\ rstate.calls <= retries
          /\ rstate.calls = Len(trace)
          /\ (rpc = "returned" /\ AllTransient(trace)) =>
                 (rstate.result = None /\ rstate.calls = retries)
          /\ rpc = "raised" => \E i \in 1..Len(trace) : trace[i] = OtherError)
    /\ (rpc = "loop" ~> rpc \in {"returned", "raised"})

\* three transient failures with retries=3: None after three calls
C7_Witness ==
    /\ rpc = "returned"
    /\ retries = DefaultRetries
    /\ trace = <<RequestError, RequestError, RequestError>>
    /\ rstate.result = None
    /\ rstate.calls = 3

----------------------------------------------------------------------------
(* Properties of split_audio (SplitSpec) *)

Ceil(d, l) == (d + l - 1) \div l

RECURSIVE TotalDuration(_)
TotalDuration(cs) ==
    IF cs = << >> THEN 0
    ELSE (cs[1].to - cs[1].from) + TotalDuration(Tail(cs))

\* C9: without failure split_audio returns ceil(D / L) paths, numbered
\* 0, 1, ... in source order, chunk i covering [i*L, min((i+1)*L, D)), and
\* the chunk durations add up to D.
C9_ChunkCount ==
    (spc = "returned" /\ ~sFailed) =>
        /\ Len(sPaths) = Ceil(sDur, sLen)
        /\ Len(sChunks) = Len(sPaths)
        /\ \A k \in 1..Len(sPaths) :
              /\ sPaths[k] = ChunkName(sPath, k - 1)
              /\ sChunks[k].name = sPaths[k]
              /\ sChunks[k].from = (k - 1) * sLen
              /\ sChunks[k].to = Min(k * sLen, sDur)
              /\ sChunks[k].from < sChunks[k].to
        /\ TotalDuration(sChunks) = sDur

\* 10 ms in windows of 4 ms: three chunks, the last one short
C9_Witness ==
    /\ spc = "returned" /\ ~sFailed
    /\ sDur = 10 /\ sLen = 4
    /\ Len(sPaths) = 3
    /\ sChunks[3].to - sChunks[3].from = 2

====
